---- MODULE Spec2Model ----
(***************************************************************************)
(* A model of the health-export pipeline: the Record Flattener             *)
(* (process_health_data), the Workout Flattener (process_workout_data)     *)
(* and the Daily Aggregator (process_final_data) of src/data_processing.py *)
(* as they are called, in that order, by main of scripts/refresh.py, and   *)
(* the rest of main: the five uploads of utils/bigquery_utils.py and the   *)
(* sleep and regimen summaries computed between them.                      *)
(*                                                                         *)
(* Representation.                                                         *)
(*  - A timestamp attribute is a record [ok, day, sec]: a calendar day     *)
(*    counted from Monday 2023-12-25 and a second of that day; ok = FALSE  *)
(*    is a string pd.to_datetime cannot parse.  A parsed timestamp is the  *)
(*    number of seconds since 2023-12-25T00:00 (local wall clock).         *)
(*  - A float is an integer number of thousandths (1.5 is 1500); NaN is a  *)
(*    value outside the range of every number the model computes, and      *)
(*    every arithmetic operator propagates it as IEEE arithmetic does.     *)
(*  - A table (DataFrame) is a sequence of rows (records); a column that   *)
(*    the DataFrame does not have is a field the rows do not have.         *)
(***************************************************************************)
EXTENDS Integers, Sequences, FiniteSets, TLC

VARIABLES
    pc,         \* position of main: "parse", "workout", "final", "upload", "wait",
                \* "sleep", "regimen", "done", "aborted"
    records,    \* the Record elements of the export tree, in document order
    workouts,   \* the Workout elements of the export tree, in document order
    df,         \* main's df: the table returned by process_health_data
    df2,        \* main's df2: the table returned by process_workout_data
    df_final,   \* main's df_final: the table returned by process_final_data
    raised,     \* the exception that ended the run: its type, the stage and the
                \* original failure its message names; NoException while none
    uploads,    \* the load jobs issued so far, in order: target table and status
    sleep_dist, \* main's sleep_dist: the weekly summary of TotalSleepHours
    regimen_dist \* main's regimen_dist: the summary of the two regimen cohorts

vars == <<pc, records, workouts, df, df2, df_final, raised,
          uploads, sleep_dist, regimen_dist>>

\* the variables of main after its three stages
summaries == <<uploads, sleep_dist, regimen_dist>>

-----------------------------------------------------------------------------
(* Bounds of the exploration *)

MaxRecords == 3     \* Record elements of an export, pipeline specification
MaxWorkouts == 4    \* Workout elements of an export, pipeline specification
MaxFlatten == 2     \* Record elements of an export, flattener specification
MaxNights == 4      \* nights of an export, specification of the whole of main
MaxSessions == 6    \* Workout elements of an export, specification of the whole of main

-----------------------------------------------------------------------------
(* Numbers *)

NaN == 0 - 2000000000
None == "None"

Milli == 1000

Float(n) == n * Milli

NanAdd(a, b) == IF a = NaN \/ b = NaN THEN NaN ELSE a + b

\* the integer nearest to n / d, a tie going to the even one (numpy's rint)
RoundRatio(n, d) ==
    LET q == n \div d
        r == n % d
    IN  IF 2 * r < d THEN q
        ELSE IF 2 * r > d THEN q + 1
        ELSE IF q % 2 = 0 THEN q ELSE q + 1

\* np.round(x / divisor, decimals) of a float x, decimals in {0, 1}
NpRoundDiv(x, divisor, decimals) ==
    LET unit == IF decimals = 0 THEN Milli ELSE Milli \div 10
    IN  IF x = NaN THEN NaN ELSE RoundRatio(x, divisor * unit) * unit

\* np.round(x, decimals)
NpRound(x, decimals) == NpRoundDiv(x, 1, decimals)

\* float(s) of a string s, where it is defined
FloatOfString ==
    [s \in {"60", "45", "44.5", "20", "30", "15", "3.14", "250", "14.96", "3"} |->
        CASE s = "60" -> 60000
          [] s = "45" -> 45000
          [] s = "44.5" -> 44500
          [] s = "20" -> 20000
          [] s = "30" -> 30000
          [] s = "15" -> 15000
          [] s = "3.14" -> 3140
          [] s = "250" -> 250000
          [] s = "14.96" -> 14960
          [] s = "3" -> 3000]

IsNumeric(s) == s \in DOMAIN FloatOfString

-----------------------------------------------------------------------------
(* Time *)

SecondsPerDay == 86400
SecondsPerHour == 3600

\* pd.to_datetime of a timestamp attribute
ToDatetime(ts) == ts.day * SecondsPerDay + ts.sec

\* pd.Timedelta(hours=h)
TimedeltaHours(h) == h * SecondsPerHour

\* Timestamp.date() / Series.dt.date: the calendar day of a timestamp
DateOf(t) == t \div SecondsPerDay

\* Timedelta.seconds: the seconds component of a duration normalised into
\* days, seconds (0 <= seconds < 86400) and microseconds
TimedeltaSeconds(td) == td % SecondsPerDay

\* Timestamp.weekday(), Monday = 0 .. Sunday = 6; day 0 is a Monday
Weekday(d) == d % 7

-----------------------------------------------------------------------------
(* Record Flattener: process_health_data *)

DataProcessingError == "DataProcessingError"

sleep_categories ==
    { "HKCategoryValueSleepAnalysisInBed",
      "HKCategoryValueSleepAnalysisAsleepCore",
      "HKCategoryValueSleepAnalysisAsleepDeep",
      "HKCategoryValueSleepAnalysisAwake",
      "HKCategoryValueSleepAnalysisAsleepREM",
      "HKCategoryValueSleepAnalysisAsleepUnspecified" }

\* the keys of value_replacements; every one of them maps to np.nan
value_replacements ==
    { "HKCategoryValueSleepAnalysisInBed",
      "HKCategoryValueNotApplicable",
      "HKCategoryValueHeadphoneAudioExposureEventSevenDayLimit",
      "HKCategoryValueEnvironmentalAudioExposureEventMomentaryLimit",
      "HKCategoryValueSleepAnalysisAsleepCore",
      "HKCategoryValueSleepAnalysisAsleepDeep",
      "HKCategoryValueSleepAnalysisAwake",
      "HKCategoryValueSleepAnalysisAsleepREM",
      "HKCategoryValueSleepAnalysisAsleepUnspecified",
      "HKCategoryValueAppleStandHourIdle",
      "HKCategoryValueAppleStandHourStood" }

\* x[len('HKCategoryTypeIdentifier'):] drops the first 24 characters of the
\* type, whatever they are ('HKQuantityTypeIdentifier' is 24 characters too)
StripTypePrefix(type) ==
    CASE type = "HKCategoryTypeIdentifierSleepAnalysis" -> "SleepAnalysis"
      [] type = "HKCategoryTypeIdentifierAppleStandHour" -> "AppleStandHour"
      [] type = "HKCategoryTypeIdentifierAudioExposureEvent" -> "AudioExposureEvent"
      [] type = "HKQuantityTypeIdentifierRestingHeartRate" -> "RestingHeartRate"
      [] type = "HKQuantityTypeIdentifierActiveEnergyBurned" -> "ActiveEnergyBurned"
      [] type = "HKQuantityTypeIdentifierBasalEnergyBurned" -> "BasalEnergyBurned"
      [] type = "HKQuantityTypeIdentifierVO2Max" -> "VO2Max"

\* SleepAdjust with an offset of five hours
SleepAdjustWrongHours(value) ==
    IF value \in sleep_categories THEN TimedeltaHours(5) ELSE 0

\* the offset the "Adjust sleep times" lambdas add to a row's timestamp
SleepAdjust(value) ==
    IF value \in sleep_categories THEN TimedeltaHours(4) ELSE 0

\* df['value'].replace(value_replacements).astype(float), one cell
ReplaceAndCast(value) ==
    IF value \in value_replacements THEN NaN ELSE FloatOfString[value]

\* SleepValue testing value2 against the three sleep stages only
SleepValueThreeOnly(value2, time_elapsed, value) ==
    IF value2 \in { "HKCategoryValueSleepAnalysisAsleepCore",
                    "HKCategoryValueSleepAnalysisAsleepDeep",
                    "HKCategoryValueSleepAnalysisAsleepREM" }
    THEN Float(TimedeltaSeconds(time_elapsed)) ELSE value

\* the "Calculate sleep duration" lambdas, one row
SleepValue(value2, time_elapsed, value) ==
    IF value2 \in sleep_categories
    THEN Float(TimedeltaSeconds(time_elapsed)) ELSE value

SleepUnit(value2, unit) ==
    IF value2 \in sleep_categories THEN "s" ELSE unit

\* the output row of one Record element
HealthRow(r) ==
    LET end_datetime == ToDatetime(r.endDate) + SleepAdjust(r.value)
        start_datetime == ToDatetime(r.startDate) + SleepAdjust(r.value)
        time_elapsed == end_datetime - start_datetime
        value2 == r.value
    IN  [ type |-> StripTypePrefix(r.type),
          unit |-> SleepUnit(value2, r.unit),
          value |-> SleepValue(value2, time_elapsed, ReplaceAndCast(r.value)),
          value2 |-> value2,
          start_datetime |-> start_datetime,
          end_datetime |-> end_datetime,
          time_elapsed |-> time_elapsed,
          start_date |-> DateOf(start_datetime),
          end_date |-> DateOf(end_datetime) ]

\* the first statement of process_health_data that raises inside its try
\* block, as the exception it raises, "none" when none does: df.drop of the
\* two source columns on the column-less frame of an empty export,
\* pd.to_datetime of a malformed timestamp, astype(float) of a value that is
\* neither replaced nor a number
HealthDataFailure(recs) ==
    IF Len(recs) = 0 THEN "KeyError"
    ELSE IF \E i \in 1..Len(recs) : ~recs[i].startDate.ok \/ ~recs[i].endDate.ok
    THEN "DateParseError"
    ELSE IF \E i \in 1..Len(recs) :
              recs[i].value \notin value_replacements /\ ~IsNumeric(recs[i].value)
    THEN "ValueError"
    ELSE "none"

process_health_data(recs) == [i \in 1..Len(recs) |-> HealthRow(recs[i])]

-----------------------------------------------------------------------------
(* Workout Flattener: process_workout_data *)

\* A Workout element is a record of its attributes plus
\*   distance, distanceUnit : sum and unit of its WorkoutStatistics child of
\*       type HKQuantityTypeIdentifierDistanceWalkingRunning, None without one
\*   elevation : value of its MetadataEntry child with key
\*       HKElevationAscended, None without one

\* x[len('HKWorkoutActivityType'):] drops the first 21 characters
StripActivityPrefix(type) ==
    CASE type = "HKWorkoutActivityTypeTraditionalStrengthTraining" -> "TraditionalStrengthTraining"
      [] type = "HKWorkoutActivityTypeRunning" -> "Running"
      [] type = "HKWorkoutActivityTypeHighIntensityIntervalTraining" -> "HighIntensityIntervalTraining"
      [] type = "HKWorkoutActivityTypeCoreTraining" -> "CoreTraining"
      [] type = "HKWorkoutActivityTypeWalking" -> "Walking"

\* elevation_value.split(' ', 1) when the value holds a space, else the
\* whole value and no unit: <<value, unit>>
SplitElevation(elevation_value) ==
    CASE elevation_value = "250 cm" -> <<"250", "cm">>
      [] elevation_value = "3 m" -> <<"3", "m">>
      [] elevation_value = "14.96" -> <<"14.96", None>>

\* record_data of one Workout element: the keys distance_walking_running and
\* elevation_ascended exist only when the element has the child
HasDistance(w) == w.distance # None
HasElevation(w) == w.elevation # None

\* 'distance_walking_running' in df.columns, 'elevation_ascended' in df.columns
DistanceColumn(ws) == \E i \in 1..Len(ws) : HasDistance(ws[i])
ElevationColumn(ws) == \E i \in 1..Len(ws) : HasElevation(ws[i])

\* np.round(df[col].astype(float), round).astype(type), one cell of a row
\* that has the key; a row without it holds NaN in an existing column
RoundedDuration(w) == NpRound(FloatOfString[w.duration], 0) \div Milli

RoundedDistance(w) ==
    IF HasDistance(w) THEN NpRound(FloatOfString[w.distance], 1) ELSE NaN

RoundedElevation(w) ==
    IF HasElevation(w)
    THEN NpRound(FloatOfString[SplitElevation(w.elevation)[1]], 1)
    ELSE NaN

\* Series.fillna(0), one cell
FillNa0(x) == IF x = NaN THEN 0 ELSE x

\* fillna(0), then np.round(elevation / 100, 1)
ElevationMeters(w) == NpRoundDiv(FillNa0(RoundedElevation(w)), 100, 1)

\* df['elevation_ascended_unit'].replace({'cm': 'm'}), one cell
ElevationUnit(w) ==
    IF ~HasElevation(w) THEN None
    ELSE IF SplitElevation(w.elevation)[2] = "cm" THEN "m"
    ELSE SplitElevation(w.elevation)[2]

\* the output row of one Workout element in a frame that has the elevation
\* column; the distance column is the rounded one when some element has the
\* statistic, and the 0 of the required_columns loop when none has
WorkoutRow(w, distance_in_columns) ==
    [ workout_activity_type |-> StripActivityPrefix(w.workoutActivityType),
      duration |-> RoundedDuration(w),
      duration_unit |-> w.durationUnit,
      distance_walking_running |->
          IF distance_in_columns THEN RoundedDistance(w) ELSE 0,
      elevation_ascended |-> ElevationMeters(w),
      elevation_ascended_unit |-> ElevationUnit(w),
      start_datetime |-> ToDatetime(w.startDate),
      end_datetime |-> ToDatetime(w.endDate),
      start_date |-> DateOf(ToDatetime(w.startDate)),
      end_date |-> DateOf(ToDatetime(w.endDate)) ]

\* the first statement of process_workout_data that raises inside its try
\* block, "none" when none does: df['workout_activity_type'] on the
\* column-less frame of an export without workouts, astype(float) of a value
\* that is not a number, df['elevation_ascended'] when no element has the
\* metadata entry, pd.to_datetime of a malformed timestamp
WorkoutDataFailure(ws) ==
    IF Len(ws) = 0 THEN "KeyError"
    ELSE IF \/ \E i \in 1..Len(ws) : ~IsNumeric(ws[i].duration)
            \/ \E i \in 1..Len(ws) :
                  HasDistance(ws[i]) /\ ~IsNumeric(ws[i].distance)
            \/ \E i \in 1..Len(ws) :
                  HasElevation(ws[i]) /\ ~IsNumeric(SplitElevation(ws[i].elevation)[1])
    THEN "ValueError"
    ELSE IF ~ElevationColumn(ws) THEN "KeyError"
    ELSE IF \E i \in 1..Len(ws) : ~ws[i].startDate.ok \/ ~ws[i].endDate.ok
    THEN "DateParseError"
    ELSE "none"

process_workout_data(ws) ==
    [i \in 1..Len(ws) |-> WorkoutRow(ws[i], DistanceColumn(ws))]

-----------------------------------------------------------------------------
(* Daily Aggregator: process_final_data *)

weekday_map ==
    [ n \in 0..6 |->
        CASE n = 0 -> "Monday"
          [] n = 1 -> "Tuesday"
          [] n = 2 -> "Wednesday"
          [] n = 3 -> "Thursday"
          [] n = 4 -> "Friday"
          [] n = 5 -> "Saturday"
          [] n = 6 -> "Sunday" ]

\* '2024-01-01', a Monday, as a day number
ReportingStart == 7

workout_minutes_types ==
    { "TraditionalStrengthTraining", "Running",
      "HighIntensityIntervalTraining", "CoreTraining" }

Min(S) == CHOOSE x \in S : \A y \in S : x <= y

RECURSIVE SortedSeq(_)
SortedSeq(S) ==
    IF S = {} THEN <<>> ELSE <<Min(S)>> \o SortedSeq(S \ {Min(S)})

\* np.sort(np.unique(health_df.end_date)): the date spine
Spine(health_df) ==
    SortedSeq({ health_df[i].end_date : i \in 1..Len(health_df) })

\* the date spine with its weekday names
SpineFrame(health_df) ==
    LET spine == Spine(health_df)
    IN  [ k \in 1..Len(spine) |->
            [end_date |-> spine[k], weekday |-> weekday_map[Weekday(spine[k])]] ]

\* GroupBy.sum() of one group: NaN cells are skipped
RECURSIVE SumSkipNa(_)
SumSkipNa(xs) ==
    IF xs = <<>> THEN 0
    ELSE (IF Head(xs) = NaN THEN 0 ELSE Head(xs)) + SumSkipNa(Tail(xs))

\* GroupBySum without the groupby: one row per row of the frame
Ungrouped(rows, column) ==
    [ i \in 1..Len(rows) |-> [end_date |-> rows[i].end_date, sum |-> rows[i][column]] ]

\* rows[[column, 'end_date']].groupby('end_date').sum().reset_index():
\* one row per distinct end_date, in ascending order
GroupBySum(rows, column) ==
    LET keys == SortedSeq({ rows[i].end_date : i \in 1..Len(rows) })
    IN  [ k \in 1..Len(keys) |->
            LET g == SelectSeq(rows, LAMBDA r : r.end_date = keys[k])
            IN  [ end_date |-> keys[k],
                  sum |-> SumSkipNa([i \in 1..Len(g) |-> g[i][column]]) ] ]

RECURSIVE Concat(_)
Concat(tables) ==
    IF tables = <<>> THEN <<>> ELSE Head(tables) \o Concat(Tail(tables))

\* the element of a one-element set; the frames below are built as
\* TheOnly({ e(f) : f \in {frame} }) so that a frame is computed once, not
\* once for each of its uses in e
TheOnly(S) == CHOOSE x \in S : TRUE

\* left.merge(right, on='end_date', how='left') followed by the rename of
\* the merged column: a left row is repeated for each right row of its
\* date, and kept once with NaN when there is none
LeftMerge(left, right, name) ==
    TheOnly({
        Concat([ k \in 1..Len(l) |->
            LET ms == SelectSeq(r, LAMBDA g : g.end_date = l[k].end_date)
            IN  IF ms = <<>> THEN << (name :> NaN) @@ l[k] >>
                ELSE [ j \in 1..Len(ms) |-> (name :> ms[j].sum) @@ l[k] ] ])
        : l \in {left}, r \in {right} })

\* frame[name] = np.round(frame[name] / divisor, decimals)
RoundColumn(frame, name, divisor, decimals) ==
    TheOnly({
        [ k \in 1..Len(f) |->
            (name :> NpRoundDiv(f[k][name], divisor, decimals)) @@ f[k] ]
        : f \in {frame} })

\* frame[name].fillna(0)
FillColumn(frame, name) ==
    TheOnly({
        [ k \in 1..Len(f) |-> (name :> FillNa0(f[k][name])) @@ f[k] ]
        : f \in {frame} })

\* MergeSleepMetric followed by fillna(0)
MergeSleepMetricZeroFilled(frame, health_df, metric_name, category) ==
    FillColumn(
        RoundColumn(
            LeftMerge(frame,
                      GroupBySum(SelectSeq(health_df, LAMBDA r : r.value2 = category), "value"),
                      metric_name),
            metric_name, SecondsPerHour, 1),
        metric_name)

\* the "Process sleep metrics" loop, one turn
MergeSleepMetric(frame, health_df, metric_name, category) ==
    RoundColumn(
        LeftMerge(frame,
                  GroupBySum(SelectSeq(health_df, LAMBDA r : r.value2 = category), "value"),
                  metric_name),
        metric_name, SecondsPerHour, 1)

\* ShiftUp without the shift
ShiftNone(column, k) == column[k]

\* Series.shift(-1): the cell of the next row, NaN on the last row
ShiftUp(column, k) == IF k < Len(column) THEN column[k + 1] ELSE NaN

\* frame[metric + 'NextNight'] = frame[metric].shift(-1)
WithNextNight(frame, metric, name) ==
    TheOnly({
        [ k \in 1..Len(f) |->
            (name :> ShiftUp([j \in 1..Len(f) |-> f[j][metric]], k)) @@ f[k] ]
        : f \in {frame} })

\* the "Process health metrics" loop, one turn; calories is
\* 'Calories' in metric_name
MergeHealthMetric(frame, health_df, metric_name, metric_type, calories) ==
    LET merged == LeftMerge(frame,
                      GroupBySum(SelectSeq(health_df, LAMBDA r : r.type = metric_type), "value"),
                      metric_name)
    IN  IF calories THEN RoundColumn(merged, metric_name, 1, 0) ELSE merged

\* .groupby(['workout_activity_type', 'end_date']).sum().loc[workout_type]
\* raises KeyError when no row of the frame has the activity type
LocRaises(workout_df, workout_type) ==
    \A i \in 1..Len(workout_df) :
        workout_df[i].workout_activity_type # workout_type

\* the "Process workout data" and "Process running metrics" loops, one turn:
\* the merge of the groups of one activity type, then fillna(0)
MergeWorkoutMetric(frame, workout_df, metric_name, workout_type, column) ==
    FillColumn(
        LeftMerge(frame,
                  GroupBySum(SelectSeq(workout_df,
                                 LAMBDA r : r.workout_activity_type = workout_type),
                             column),
                  metric_name),
        metric_name)

\* TotalSleep taking a missing addend for 0
TotalSleepPartial(core, deep, rem) == FillNa0(core) + FillNa0(deep) + FillNa0(rem)

\* CoreSleepHours + DeepSleepHours + REMSleepHours
TotalSleep(core, deep, rem) == NanAdd(NanAdd(core, deep), rem)

\* Indicator testing x >= 0
IndicatorNonNegative(x) == IF x >= 0 THEN 1 ELSE 0

\* lambda x: 1 if x > 0 else 0
Indicator(x) == IF x > 0 THEN 1 ELSE 0

\* WeekEnding counting from 7
WeekEndingWrong(end_date) == end_date + (7 - Weekday(end_date))

\* EndDate + pd.to_timedelta(6 - EndDate.dt.weekday, unit='D')
WeekEnding(end_date) == end_date + (6 - Weekday(end_date))

\* the cell of a column computed from the other columns of its row
DerivedCell(name, row) ==
    CASE name = "TotalSleepHours" ->
            TotalSleep(row.CoreSleepHours, row.DeepSleepHours, row.REMSleepHours)
      [] name = "TotalCaloriesBurned" ->
            NanAdd(row.ActiveCaloriesBurned, row.BasalCaloriesBurned)
      [] name = "TotalWorkoutMinutes" ->
            row.StrengthTrainingMinutes + row.RunningMinutes
            + row.CoreTrainingMinutes + row.HIITMinutes
      [] name = "StrengthTrained" -> Indicator(row.StrengthTrainingMinutes)
      [] name = "Ran" -> Indicator(row.RunningMinutes)
      [] name = "HIITTrained" -> Indicator(row.HIITMinutes)
      [] name = "CoreTrained" -> Indicator(row.CoreTrainingMinutes)
      [] name = "Exercised" -> Indicator(row.TotalWorkoutMinutes)
      [] name = "EndDate" -> row.end_date    \* the rename of end_date
      [] name = "WeekEndingDate" -> WeekEnding(row.EndDate)

\* frame[name] = the derived column
WithColumn(frame, name) ==
    TheOnly({
        [ k \in 1..Len(f) |-> (name :> DerivedCell(name, f[k])) @@ f[k] ]
        : f \in {frame} })

\* the frame before the filter
Unfiltered(health_df, workout_df) ==
    LET f0 == SpineFrame(health_df)
        f1 == MergeSleepMetric(f0, health_df, "CoreSleepHours",
                               "HKCategoryValueSleepAnalysisAsleepCore")
        f2 == MergeSleepMetric(f1, health_df, "DeepSleepHours",
                               "HKCategoryValueSleepAnalysisAsleepDeep")
        f3 == MergeSleepMetric(f2, health_df, "REMSleepHours",
                               "HKCategoryValueSleepAnalysisAsleepREM")
        f4 == WithColumn(f3, "TotalSleepHours")
        f5 == WithNextNight(f4, "CoreSleepHours", "CoreSleepHoursNextNight")
        f6 == WithNextNight(f5, "DeepSleepHours", "DeepSleepHoursNextNight")
        f7 == WithNextNight(f6, "REMSleepHours", "REMSleepHoursNextNight")
        f8 == WithNextNight(f7, "TotalSleepHours", "TotalSleepHoursNextNight")
        f9 == MergeHealthMetric(f8, health_df, "AvgRestingHeartRateBPM",
                                "RestingHeartRate", FALSE)
        f10 == MergeHealthMetric(f9, health_df, "ActiveCaloriesBurned",
                                 "ActiveEnergyBurned", TRUE)
        f11 == MergeHealthMetric(f10, health_df, "BasalCaloriesBurned",
                                 "BasalEnergyBurned", TRUE)
        f12 == WithColumn(f11, "TotalCaloriesBurned")
        f13 == MergeWorkoutMetric(f12, workout_df, "StrengthTrainingMinutes",
                                  "TraditionalStrengthTraining", "duration")
        f14 == MergeWorkoutMetric(f13, workout_df, "RunningMinutes", "Running", "duration")
        f15 == MergeWorkoutMetric(f14, workout_df, "HIITMinutes",
                                  "HighIntensityIntervalTraining", "duration")
        f16 == MergeWorkoutMetric(f15, workout_df, "CoreTrainingMinutes",
                                  "CoreTraining", "duration")
        f17 == MergeWorkoutMetric(f16, workout_df, "RunningMiles", "Running",
                                  "distance_walking_running")
        f18 == MergeWorkoutMetric(f17, workout_df, "RunningMetersAscended", "Running",
                                  "elevation_ascended")
        f19 == WithColumn(f18, "TotalWorkoutMinutes")
        f20 == WithColumn(f19, "StrengthTrained")
        f21 == WithColumn(f20, "Ran")
        f22 == WithColumn(f21, "HIITTrained")
        f23 == WithColumn(f22, "CoreTrained")
        f24 == WithColumn(f23, "Exercised")
        f25 == WithColumn(f24, "EndDate")
    IN  WithColumn(f25, "WeekEndingDate")

\* df_final[df_final.EndDate >= '2024-01-01']
process_final_data(health_df, workout_df) ==
    SelectSeq(Unfiltered(health_df, workout_df),
              LAMBDA r : r.EndDate >= ReportingStart)

\* the first statement of process_final_data that raises inside its try
\* block, "none" when none does
FinalDataFailure(workout_df) ==
    IF \E t \in workout_minutes_types : LocRaises(workout_df, t)
    THEN "KeyError" ELSE "none"

-----------------------------------------------------------------------------
(* The exports explored *)

Timestamp(day, hour, minute) ==
    [ok |-> TRUE, day |-> day, sec |-> hour * SecondsPerHour + minute * 60]

Malformed == [ok |-> FALSE, day |-> 0, sec |-> 0]

SleepRecord(value, startDate, endDate) ==
    [ type |-> "HKCategoryTypeIdentifierSleepAnalysis", unit |-> None,
      value |-> value, startDate |-> startDate, endDate |-> endDate ]

\* Record elements of the pipeline specification.  Day 6 is Sunday
\* 2023-12-31, day 9 Wednesday 2024-01-03, day 13 Sunday 2024-01-07; the
\* sleep segments are given in raw time, four hours before the time they
\* are attributed to.  The sixth element has a value that is neither
\* replaced nor a number.
RecordPool ==
    << SleepRecord("HKCategoryValueSleepAnalysisAsleepCore",
                   Timestamp(12, 20, 0), Timestamp(12, 21, 30)),
       SleepRecord("HKCategoryValueSleepAnalysisAsleepDeep",
                   Timestamp(12, 21, 30), Timestamp(12, 21, 45)),
       SleepRecord("HKCategoryValueSleepAnalysisAsleepCore",
                   Timestamp(8, 21, 0), Timestamp(8, 23, 0)),
       SleepRecord("HKCategoryValueSleepAnalysisAsleepDeep",
                   Timestamp(8, 23, 0), Timestamp(9, 0, 0)),
       SleepRecord("HKCategoryValueSleepAnalysisAsleepREM",
                   Timestamp(9, 0, 0), Timestamp(9, 1, 30)),
       [ type |-> "HKCategoryTypeIdentifierAudioExposureEvent", unit |-> None,
         value |-> "HKCategoryValueAudioExposureEventLoudEnvironment",
         startDate |-> Timestamp(9, 12, 0), endDate |-> Timestamp(9, 12, 0) ],
       SleepRecord("HKCategoryValueSleepAnalysisAsleepCore",
                   Timestamp(6, 18, 0), Timestamp(6, 19, 0)),
       SleepRecord("HKCategoryValueSleepAnalysisAwake",
                   Timestamp(9, 1, 30), Timestamp(9, 1, 45)),
       [ type |-> "HKQuantityTypeIdentifierRestingHeartRate", unit |-> "count/min",
         value |-> "60", startDate |-> Timestamp(8, 10, 0),
         endDate |-> Timestamp(8, 10, 0) ] >>

Workout(activity, duration, day, distance, elevation) ==
    [ workoutActivityType |-> activity, duration |-> duration,
      durationUnit |-> "min",
      startDate |-> Timestamp(day, 17, 0), endDate |-> Timestamp(day, 18, 0),
      distance |-> distance,
      distanceUnit |-> IF distance = None THEN None ELSE "mi",
      elevation |-> elevation ]

\* Workout elements of the pipeline specification
\* (the third has an endDate that is not a timestamp)
WorkoutPool ==
    << Workout("HKWorkoutActivityTypeRunning", "20", 9, "3.14", "250 cm"),
       Workout("HKWorkoutActivityTypeTraditionalStrengthTraining", "44.5", 9, None, None),
       [ Workout("HKWorkoutActivityTypeWalking", "20", 9, None, None)
           EXCEPT !.endDate = Malformed ],
       Workout("HKWorkoutActivityTypeHighIntensityIntervalTraining", "30", 13, None, "3 m"),
       Workout("HKWorkoutActivityTypeCoreTraining", "15", 13, None, None),
       Workout("HKWorkoutActivityTypeRunning", "30", 8, "3", "14.96") >>

\* Record elements of the flattener specification: every kind of value with
\* every span
FlattenKinds ==
    { [type |-> "HKCategoryTypeIdentifierSleepAnalysis", unit |-> None, value |-> v] :
        v \in sleep_categories }
    \cup
    { [type |-> "HKCategoryTypeIdentifierAppleStandHour", unit |-> None,
       value |-> "HKCategoryValueAppleStandHourStood"],
      [type |-> "HKCategoryTypeIdentifierAudioExposureEvent", unit |-> None,
       value |-> "HKCategoryValueAudioExposureEventLoudEnvironment"],
      [type |-> "HKQuantityTypeIdentifierRestingHeartRate", unit |-> "count/min",
       value |-> "60"] }

FlattenSpans ==
    { <<Timestamp(8, 19, 0), Timestamp(8, 21, 30)>>,
      <<Timestamp(8, 21, 0), Timestamp(9, 22, 0)>>,
      <<Timestamp(8, 21, 0), Malformed>> }

FlattenPool ==
    { [ type |-> k.type, unit |-> k.unit, value |-> k.value,
        startDate |-> s[1], endDate |-> s[2] ] :
      k \in FlattenKinds, s \in FlattenSpans }

PoolIndex(pool, x) == CHOOSE i \in 1..Len(pool) : pool[i] = x

\* the elements of an explored export follow the order of their pool
InPoolOrder(elements, pool, i) ==
    IF elements = <<>> THEN TRUE
    ELSE PoolIndex(pool, elements[Len(elements)]) <= i

-----------------------------------------------------------------------------
(* main *)

NoException == [type |-> "none", stage |-> "none", cause |-> "none"]

\* Raise letting the original exception through
RaiseOriginal(stage, cause) ==
    [type |-> cause, stage |-> stage, cause |-> cause]

\* raise DataProcessingError(f"Error processing {stage} data: {str(e)}")
Raise(stage, cause) ==
    [type |-> DataProcessingError, stage |-> stage, cause |-> cause]

Init ==
    /\ pc = "parse"
    /\ records = <<>>
    /\ workouts = <<>>
    /\ df = <<>>
    /\ df2 = <<>>
    /\ df_final = <<>>
    /\ raised = NoException
    /\ uploads = <<>>
    /\ sleep_dist = <<>>
    /\ regimen_dist = <<>>

\* ET.parse meets a Record element
ParseRecord(r, max) ==
    /\ pc = "parse"
    /\ Len(records) < max
    /\ records' = Append(records, r)
    /\ UNCHANGED <<pc, workouts, df, df2, df_final, raised, summaries>>

\* ET.parse meets a Workout element
ParseWorkout(w, max) ==
    /\ pc = "parse"
    /\ Len(workouts) < max
    /\ workouts' = Append(workouts, w)
    /\ UNCHANGED <<pc, records, df, df2, df_final, raised, summaries>>

\* df = process_health_data(root)
ProcessHealthData ==
    /\ pc = "parse"
    /\ IF HealthDataFailure(records) # "none"
       THEN /\ raised' = Raise("health", HealthDataFailure(records))
            /\ pc' = "aborted"
            /\ df' = df
       ELSE /\ df' = process_health_data(records)
            /\ pc' = "workout"
            /\ raised' = raised
    /\ UNCHANGED <<records, workouts, df2, df_final, summaries>>

\* df2 = process_workout_data(root)
ProcessWorkoutData ==
    /\ pc = "workout"
    /\ IF WorkoutDataFailure(workouts) # "none"
       THEN /\ raised' = Raise("workout", WorkoutDataFailure(workouts))
            /\ pc' = "aborted"
            /\ df2' = df2
       ELSE /\ df2' = process_workout_data(workouts)
            /\ pc' = "final"
            /\ raised' = raised
    /\ UNCHANGED <<records, workouts, df, df_final, summaries>>

\* df_final = process_final_data(df, df2)
ProcessFinalData ==
    /\ pc = "final"
    /\ IF FinalDataFailure(df2) # "none"
       THEN /\ raised' = Raise("final", FinalDataFailure(df2))
            /\ pc' = "aborted"
            /\ df_final' = df_final
       ELSE /\ df_final' = process_final_data(df, df2)
            /\ pc' = "upload"
            /\ raised' = raised
    /\ UNCHANGED <<records, workouts, df, df2, summaries>>

\* main up to the return of its three stages, on exports of late December
\* 2023 and early January 2024
Next ==
    \/ \E i \in 1..Len(RecordPool) :
          InPoolOrder(records, RecordPool, i) /\ ParseRecord(RecordPool[i], MaxRecords)
    \/ \E i \in 1..Len(WorkoutPool) :
          InPoolOrder(workouts, WorkoutPool, i) /\ ParseWorkout(WorkoutPool[i], MaxWorkouts)
    \/ ProcessHealthData
    \/ ProcessWorkoutData
    \/ ProcessFinalData

Spec == Init /\ [][Next]_vars

\* the Record Flattener alone, on exports of Record elements in any order
FlattenNext ==
    \/ \E r \in FlattenPool : ParseRecord(r, MaxFlatten)
    \/ ProcessHealthData

FlattenSpec == Init /\ [][FlattenNext]_vars

-----------------------------------------------------------------------------
(* The rest of main: the distribution summaries and the uploads *)

BigQueryError == "BigQueryError"

\* the table keys of main's five upload_to_bigquery calls, in call order
upload_order ==
    << "health_record", "workouts_grouped", "vo2max",
       "sleep_boxplots", "regimen_boxplots" >>

\* Series.dropna()
DropNa(xs) == SelectSeq(xs, LAMBDA x : x # NaN)

\* the values of a Series in ascending order, duplicates kept
RECURSIVE SortValues(_)
SortValues(xs) ==
    IF xs = <<>> THEN <<>>
    ELSE LET m == Min({ xs[i] : i \in 1..Len(xs) })
             at == CHOOSE i \in 1..Len(xs) : xs[i] = m
         IN  <<m>> \o SortValues([ i \in 1..(Len(xs) - 1) |->
                                     IF i < at THEN xs[i] ELSE xs[i + 1] ])

\* Series.quantile(quarters / 4) of ascending values without NaN: linear
\* interpolation between the two values around position (n - 1) * q
Quantile(sorted, quarters) ==
    LET position == (Len(sorted) - 1) * quarters
        below == position \div 4
        part == position % 4
    IN  IF part = 0 THEN sorted[below + 1]
        ELSE sorted[below + 1]
               + ((sorted[below + 2] - sorted[below + 1]) * part) \div 4

\* agg(Min="min", Q1=quantile(0.25), Median="median", Q3=quantile(0.75),
\* Max="max") of one Series: NaN is skipped, and each of the five is NaN
\* when nothing is left
FiveNumber(values) ==
    TheOnly({
        IF xs = <<>>
        THEN [Min |-> NaN, Q1 |-> NaN, Median |-> NaN, Q3 |-> NaN, Max |-> NaN]
        ELSE [ Min |-> xs[1], Q1 |-> Quantile(xs, 1), Median |-> Quantile(xs, 2),
               Q3 |-> Quantile(xs, 3), Max |-> xs[Len(xs)] ]
        : xs \in {SortValues(DropNa(values))} })

\* '2024-11-17', a Sunday
SleepCutoff == 328

\* SleepWeekEnding a day late
SleepWeekEndingWrong(EndDate) == EndDate + (7 - Weekday(EndDate))

\* pd.to_datetime(EndDate) + pd.to_timedelta(6 - weekday, unit='D')
SleepWeekEnding(EndDate) == EndDate + (6 - Weekday(EndDate))

\* main's sleep_dist: the (EndDate, TotalSleepHours) pairs of df_final keyed
\* by week-ending date, one five-number summary per key in ascending key
\* order, the weeks ending after the cutoff kept
SleepBoxplots(final) ==
    LET keyed == [ k \in 1..Len(final) |->
                     [ WeekEndingDate |-> SleepWeekEnding(final[k].EndDate),
                       TotalSleepHours |-> final[k].TotalSleepHours ] ]
        keys == SortedSeq({ keyed[k].WeekEndingDate : k \in 1..Len(keyed) })
        group(key) == SelectSeq(keyed, LAMBDA r : r.WeekEndingDate = key)
        grouped == [ g \in 1..Len(keys) |->
                       ("WeekEndingDate" :> keys[g]) @@
                       FiveNumber([ j \in 1..Len(group(keys[g])) |->
                                      group(keys[g])[j].TotalSleepHours ]) ]
    IN  SelectSeq(grouped, LAMBDA row : row.WeekEndingDate > SleepCutoff)

\* '12-31-2024'
RegimenCutoff == 372

\* the rows main keeps for regimen A
RegimenA(final) ==
    SelectSeq(final, LAMBDA r :
        r.EndDate < RegimenCutoff /\ r.StrengthTrainingMinutes > 0)

\* the rows main keeps for regimen B
RegimenB(final) ==
    SelectSeq(final, LAMBDA r :
        r.EndDate >= RegimenCutoff /\ r.StrengthTrainingMinutes > 0)

\* the one-row frame of a cohort: the five-number summary of its
\* StrengthTrainingMinutes as floats, and its label
RegimenRow(cohort, label) ==
    ("Regimen" :> label) @@
    FiveNumber([ k \in 1..Len(cohort) |-> Float(cohort[k].StrengthTrainingMinutes) ])

\* pd.concat([regimen_a_dist, regimen_b_dist])
RegimenBoxplots(final) ==
    << RegimenRow(RegimenA(final), "A"), RegimenRow(RegimenB(final), "B") >>

\* upload_to_bigquery with no wait for the load job
PcAfterLoadNoWait == "upload"

\* upload_to_bigquery after load_table_from_file: job.result() blocks until
\* the load job has finished
PcAfterLoad == "wait"

\* the statement of main that follows its n-th upload_to_bigquery call
AfterUpload(n) ==
    CASE n = 3 -> "sleep"
      [] n = 4 -> "regimen"
      [] n = 5 -> "done"
      [] OTHER -> "upload"

\* upload_to_bigquery up to client.load_table_from_file: the load job of
\* the next table is issued
LoadTableFromFile ==
    /\ pc = "upload"
    /\ Len(uploads) < Len(upload_order)
    /\ uploads' = Append(uploads, [ table |-> upload_order[Len(uploads) + 1],
                                    status |-> "running" ])
    /\ pc' = PcAfterLoad
    /\ UNCHANGED <<records, workouts, df, df2, df_final, raised,
                   sleep_dist, regimen_dist>>

\* upload_to_bigquery fails before it issues the load job (the conversion
\* to parquet, the client): BigQueryError leaves main
UploadRejected ==
    /\ pc = "upload"
    /\ Len(uploads) < Len(upload_order)
    /\ raised' = [ type |-> BigQueryError, stage |-> "upload",
                   cause |-> "Exception" ]
    /\ pc' = "aborted"
    /\ UNCHANGED <<records, workouts, df, df2, df_final, summaries>>

\* job.result() returns: the load job has finished
JobResult ==
    /\ pc = "wait"
    /\ uploads' = [uploads EXCEPT ![Len(uploads)].status = "done"]
    /\ pc' = AfterUpload(Len(uploads))
    /\ UNCHANGED <<records, workouts, df, df2, df_final, raised,
                   sleep_dist, regimen_dist>>

\* job.result() raises: BigQueryError leaves main
JobFailed ==
    /\ pc = "wait"
    /\ uploads' = [uploads EXCEPT ![Len(uploads)].status = "failed"]
    /\ raised' = [ type |-> BigQueryError, stage |-> "upload",
                   cause |-> "GoogleCloudError" ]
    /\ pc' = "aborted"
    /\ UNCHANGED <<records, workouts, df, df2, df_final,
                   sleep_dist, regimen_dist>>

\* "Process and upload sleep boxplots data", up to the upload
SummarizeSleep ==
    /\ pc = "sleep"
    /\ sleep_dist' = SleepBoxplots(df_final)
    /\ pc' = "upload"
    /\ UNCHANGED <<records, workouts, df, df2, df_final, raised,
                   uploads, regimen_dist>>

\* "Process and upload regimen boxplots data", up to the upload.  On an
\* empty cohort Series.agg applies the two lambdas element by element
\* before it would call them on the Series, gets two empty Series among
\* three NaN and raises ValueError; a pandas that calls the lambdas on the
\* Series gets five NaN.  Both outcomes are explored.
SummarizeRegimen ==
    /\ pc = "regimen"
    /\ \/ /\ regimen_dist' = RegimenBoxplots(df_final)
          /\ pc' = "upload"
          /\ raised' = raised
       \/ /\ RegimenA(df_final) = <<>> \/ RegimenB(df_final) = <<>>
          /\ raised' = [ type |-> "ValueError", stage |-> "regimen",
                         cause |-> "ValueError" ]
          /\ pc' = "aborted"
          /\ regimen_dist' = regimen_dist
    /\ UNCHANGED <<records, workouts, df, df2, df_final, uploads, sleep_dist>>

\* minute m counted from midnight of a day, as a timestamp
At(day, m) ==
    Timestamp(day + m \div 1440, (m % 1440) \div 60, m % 60)

\* the Record elements of the night that ends on a day: a Core, a Deep and
\* a REM segment of the given minutes, one after the other from 21:00 of
\* the evening before (raw time); no Deep and no REM segment when deep = 0
Night(day, core, deep, rem) ==
    << SleepRecord("HKCategoryValueSleepAnalysisAsleepCore",
                   At(day - 1, 1260), At(day - 1, 1260 + core)) >> \o
    ( IF deep = 0 THEN <<>>
      ELSE << SleepRecord("HKCategoryValueSleepAnalysisAsleepDeep",
                          At(day - 1, 1260 + core), At(day - 1, 1260 + core + deep)),
              SleepRecord("HKCategoryValueSleepAnalysisAsleepREM",
                          At(day - 1, 1260 + core + deep),
                          At(day - 1, 1260 + core + deep + rem)) >> )

\* the nights of the specification of the whole of main: Sunday 2024-11-17
\* (day 328), Monday 11-18, Thursday 11-21 and Sunday 11-24 of the week
\* after it, Monday 2024-12-30 (day 371) and Tuesday 2024-12-31; the night
\* of 11-24 has a Core segment only
NightPool ==
    << Night(328, 180, 60, 120),
       Night(329, 240, 60, 90),
       Night(332, 270, 90, 120),
       Night(335, 300, 0, 0),
       Night(371, 240, 60, 120),
       Night(372, 210, 60, 90) >>

\* the workouts of the specification of the whole of main
SessionPool ==
    << Workout("HKWorkoutActivityTypeRunning", "20", 329, "3.14", "250 cm"),
       Workout("HKWorkoutActivityTypeHighIntensityIntervalTraining", "30", 329, None, None),
       Workout("HKWorkoutActivityTypeCoreTraining", "15", 332, None, None),
       Workout("HKWorkoutActivityTypeTraditionalStrengthTraining", "44.5", 329, None, None),
       Workout("HKWorkoutActivityTypeTraditionalStrengthTraining", "30", 332, None, None),
       Workout("HKWorkoutActivityTypeTraditionalStrengthTraining", "60", 371, None, None),
       Workout("HKWorkoutActivityTypeTraditionalStrengthTraining", "45", 372, None, None) >>

\* the nights of the export so far
NightsParsed ==
    Len(SelectSeq(records, LAMBDA r :
            r.value = "HKCategoryValueSleepAnalysisAsleepCore"))

\* the position in NightPool of the last night of the export so far
LastNight ==
    IF records = <<>> THEN 0
    ELSE CHOOSE i \in 1..Len(NightPool) :
            NightPool[i][Len(NightPool[i])] = records[Len(records)]

\* the position in SessionPool of the last workout of the export so far
LastSession ==
    IF workouts = <<>> THEN 0 ELSE PoolIndex(SessionPool, workouts[Len(workouts)])

\* ET.parse meets the Record elements of one night
ParseNight(night, max) ==
    /\ pc = "parse"
    /\ NightsParsed < max
    /\ records' = records \o night
    /\ UNCHANGED <<pc, workouts, df, df2, df_final, raised, summaries>>

\* the whole of main, on exports of distinct nights and workouts in the
\* order of their pools
MainNext ==
    \/ \E i \in 1..Len(NightPool) :
          LastNight < i /\ ParseNight(NightPool[i], MaxNights)
    \/ \E i \in 1..Len(SessionPool) :
          LastSession < i /\ ParseWorkout(SessionPool[i], MaxSessions)
    \/ ProcessHealthData
    \/ ProcessWorkoutData
    \/ ProcessFinalData
    \/ LoadTableFromFile
    \/ UploadRejected
    \/ JobResult
    \/ JobFailed
    \/ SummarizeSleep
    \/ SummarizeRegimen

MainSpec == Init /\ [][MainNext]_vars

-----------------------------------------------------------------------------
(* Properties of the Record Flattener, checked under FlattenSpec *)

\* process_health_data has returned main's df
HealthReturned == pc = "workout"

ThreeSleepStages ==
    { "HKCategoryValueSleepAnalysisAsleepCore",
      "HKCategoryValueSleepAnalysisAsleepDeep",
      "HKCategoryValueSleepAnalysisAsleepREM" }

SixSleepCodes ==
    ThreeSleepStages \cup
    { "HKCategoryValueSleepAnalysisInBed",
      "HKCategoryValueSleepAnalysisAwake",
      "HKCategoryValueSleepAnalysisAsleepUnspecified" }

\* raw end minus raw start of a Record element, in seconds
RawElapsed(r) == ToDatetime(r.endDate) - ToDatetime(r.startDate)

\* C1: every record whose raw value is AsleepCore, AsleepDeep or AsleepREM
\* has, in the returned table, unit "s" and value equal to shifted end minus
\* shifted start in whole seconds, for every non-negative segment length,
\* segments of 24 hours or longer included.
C1_SleepValueIsElapsedSeconds ==
    HealthReturned =>
        \A i \in 1..Len(records) :
            (records[i].value \in ThreeSleepStages /\ RawElapsed(records[i]) >= 0) =>
                /\ df[i].unit = "s"
                /\ df[i].value =
                      Float((ToDatetime(records[i].endDate) + 4 * 3600)
                            - (ToDatetime(records[i].startDate) + 4 * 3600))

\* C2: start_datetime and end_datetime are the raw timestamps, plus exactly
\* four hours when the raw value is one of the six sleep-analysis codes;
\* time_elapsed is raw end minus raw start; start_date and end_date are the
\* calendar dates of the shifted timestamps.
C2_ShiftOnlySleepRows ==
    HealthReturned =>
        \A i \in 1..Len(records) :
            LET r == records[i]
                shift == IF r.value \in SixSleepCodes THEN 4 * 3600 ELSE 0
                start == r.startDate.day * 86400 + r.startDate.sec + shift
                end == r.endDate.day * 86400 + r.endDate.sec + shift
            IN  /\ df[i].start_datetime = start
                /\ df[i].end_datetime = end
                /\ df[i].time_elapsed = RawElapsed(r)
                /\ df[i].start_date = start \div 86400
                /\ df[i].end_date = end \div 86400

\* C2 witness: a returned table with a sleep row whose shifted end falls on
\* the day after its raw end, and a row that is not a sleep row
C2_Witness ==
    /\ HealthReturned
    /\ \E i \in 1..Len(records) :
          /\ records[i].value = "HKCategoryValueSleepAnalysisAwake"
          /\ df[i].end_date = records[i].endDate.day + 1
          /\ df[i].start_date = records[i].startDate.day
    /\ \E i \in 1..Len(records) :
          /\ records[i].value = "60"
          /\ df[i].end_datetime = ToDatetime(records[i].endDate)

\* C3 as stated: value and unit are overwritten only for AsleepCore,
\* AsleepDeep and AsleepREM rows; InBed, Awake and AsleepUnspecified rows
\* keep the missing marker and their raw unit; rows that are not sleep rows
\* keep the cast raw value and the raw unit.
C3_OverwriteOnlyThreeStages ==
    HealthReturned =>
        \A i \in 1..Len(records) :
            LET r == records[i]
            IN  /\ r.value \in ThreeSleepStages => df[i].unit = "s"
                /\ r.value \in SixSleepCodes \ ThreeSleepStages =>
                      df[i].value = NaN /\ df[i].unit = r.unit
                /\ r.value \notin SixSleepCodes =>
                      /\ df[i].unit = r.unit
                      /\ df[i].value =
                            IF IsNumeric(r.value) THEN FloatOfString[r.value] ELSE NaN

\* C3 amended: value and unit are overwritten for the rows of all six
\* sleep-analysis codes, InBed, Awake and AsleepUnspecified included: their
\* unit is "s" and their value is never the missing marker, being computed
\* from time_elapsed (the elapsed seconds of a segment of less than a day);
\* rows that are not sleep rows keep the cast raw value and the raw unit.
C3_OverwriteAllSixCodes ==
    HealthReturned =>
        \A i \in 1..Len(records) :
            LET r == records[i]
            IN  /\ r.value \in SixSleepCodes =>
                      /\ df[i].unit = "s"
                      /\ df[i].value # NaN
                      /\ (RawElapsed(r) >= 0 /\ RawElapsed(r) < 86400) =>
                            df[i].value = Float(RawElapsed(r))
                /\ r.value \notin SixSleepCodes =>
                      /\ df[i].unit = r.unit
                      /\ df[i].value =
                            IF IsNumeric(r.value) THEN FloatOfString[r.value] ELSE NaN

\* C3 witness: a returned table with an InBed row holding its 9000 elapsed
\* seconds and a heart-rate row holding its cast value and raw unit
C3_Witness ==
    /\ HealthReturned
    /\ \E i \in 1..Len(records) :
          /\ records[i].value = "HKCategoryValueSleepAnalysisInBed"
          /\ df[i].value = Float(9000)
          /\ df[i].unit = "s"
    /\ \E i \in 1..Len(records) :
          /\ records[i].value = "60"
          /\ df[i].value = Float(60)
          /\ df[i].unit = "count/min"

-----------------------------------------------------------------------------
(* Properties of the Workout Flattener and of the Daily Aggregator, checked
   under Spec *)

\* process_workout_data has been called, and has returned or raised
WorkoutCalled == pc \in {"final", "upload"} \/ raised.stage \in {"workout", "final"}

\* process_final_data has been called, and has returned or raised
FinalCalled == pc = "upload" \/ raised.stage = "final"

\* process_final_data has returned main's df_final
FinalReturned == pc = "upload"

\* C4: when one of the four workout activity types occurs in no row of the
\* workout table, process_final_data does not raise: it returns the table
\* with the minutes column of that type (for Running also RunningMiles and
\* RunningMetersAscended) equal to 0 on every row.
C4_AbsentWorkoutTypeGivesZeros ==
    (FinalCalled /\ \E t \in workout_minutes_types : LocRaises(df2, t)) =>
        /\ raised.type = "none"
        /\ \A k \in 1..Len(df_final) :
              /\ LocRaises(df2, "TraditionalStrengthTraining") =>
                    df_final[k].StrengthTrainingMinutes = 0
              /\ LocRaises(df2, "HighIntensityIntervalTraining") =>
                    df_final[k].HIITMinutes = 0
              /\ LocRaises(df2, "CoreTraining") =>
                    df_final[k].CoreTrainingMinutes = 0
              /\ LocRaises(df2, "Running") =>
                    /\ df_final[k].RunningMinutes = 0
                    /\ df_final[k].RunningMiles = 0
                    /\ df_final[k].RunningMetersAscended = 0

\* C5: for every workout set, the empty one and those without any distance
\* statistic or elevation entry included, process_workout_data returns
\* without raising, and in every row of the returned table
\* distance_walking_running and elevation_ascended are 0 when the workout
\* did not supply the field.
C5_WorkoutColumnsAlwaysPresent ==
    WorkoutCalled =>
        /\ raised.stage # "workout"
        /\ Len(df2) = Len(workouts)
        /\ \A i \in 1..Len(df2) :
              /\ ~HasDistance(workouts[i]) => df2[i].distance_walking_running = 0
              /\ ~HasElevation(workouts[i]) => df2[i].elevation_ascended = 0

SleepMetrics ==
    { <<"CoreSleepHours", "CoreSleepHoursNextNight">>,
      <<"DeepSleepHours", "DeepSleepHoursNextNight">>,
      <<"REMSleepHours", "REMSleepHoursNextNight">>,
      <<"TotalSleepHours", "TotalSleepHoursNextNight">> }

\* C6: in the returned DailyFact table, filtered to EndDate >= 2024-01-01,
\* every row but the last holds in its four NextNight columns the un-shifted
\* metrics of the row that follows it, and the last row holds four missing
\* values.
C6_NextNightIsFollowingRow ==
    FinalReturned =>
        \A k \in 1..Len(df_final) : \A m \in SleepMetrics :
            df_final[k][m[2]] =
                IF k < Len(df_final) THEN df_final[k + 1][m[1]] ELSE NaN

\* C6 witness: a returned table of two rows or more from which the filter
\* took a date away, whose first row holds a NextNight value that is not
\* missing
C6_Witness ==
    /\ FinalReturned
    /\ Len(df_final) >= 2
    /\ \E i \in 1..Len(df) : df[i].end_date < 7
    /\ df_final[1].CoreSleepHoursNextNight = 1500
    /\ df_final[Len(df_final)].CoreSleepHoursNextNight = NaN

\* C7: in every DailyFact row TotalSleepHours is CoreSleepHours +
\* DeepSleepHours + REMSleepHours when the three are present, and missing
\* when one of them is missing.
C7_TotalSleepIsSumOrMissing ==
    FinalReturned =>
        \A k \in 1..Len(df_final) :
            LET row == df_final[k]
            IN  IF /\ row.CoreSleepHours # NaN
                   /\ row.DeepSleepHours # NaN
                   /\ row.REMSleepHours # NaN
                THEN row.TotalSleepHours =
                        row.CoreSleepHours + row.DeepSleepHours + row.REMSleepHours
                ELSE row.TotalSleepHours = NaN

\* C7 witness: a row with Core 2 h, Deep 1 h and REM 1.5 h and their total
C7_Witness ==
    /\ FinalReturned
    /\ \E k \in 1..Len(df_final) :
          /\ df_final[k].CoreSleepHours = 2000
          /\ df_final[k].DeepSleepHours = 1000
          /\ df_final[k].REMSleepHours = 1500
          /\ df_final[k].TotalSleepHours = 4500

\* C8: the returned table has exactly one row for each distinct end_date of
\* the NormalizedRecord table on or after 2024-01-01, in strictly ascending
\* date order, none for a date without a record and none before 2024-01-01.
C8_OneRowPerObservedDate ==
    FinalReturned =>
        /\ { df_final[k].EndDate : k \in 1..Len(df_final) } =
              { d \in { df[i].end_date : i \in 1..Len(df) } : d >= 7 }
        /\ \A k \in 1..Len(df_final) - 1 :
              df_final[k].EndDate < df_final[k + 1].EndDate

\* C8 witness: a returned table of two rows four days apart, a date before
\* 2024-01-01 having been dropped
C8_Witness ==
    /\ FinalReturned
    /\ Len(df_final) = 2
    /\ \E i \in 1..Len(df) : df[i].end_date = 6
    /\ df_final[1].EndDate = 9
    /\ df_final[2].EndDate = 13

\* C9: in every DailyFact row TotalWorkoutMinutes is the sum of the four
\* minutes columns, each of the four indicators is 1 exactly when its
\* minutes column is positive, Exercised is 1 exactly when
\* TotalWorkoutMinutes is positive, and, the minutes being non-negative,
\* exactly when one of the indicators is 1.
C9_WorkoutTotalsAndIndicators ==
    FinalReturned =>
        \A k \in 1..Len(df_final) :
            LET row == df_final[k]
                bit(x) == IF x > 0 THEN 1 ELSE 0
            IN  /\ row.TotalWorkoutMinutes =
                      row.StrengthTrainingMinutes + row.RunningMinutes
                      + row.CoreTrainingMinutes + row.HIITMinutes
                /\ row.StrengthTrained = bit(row.StrengthTrainingMinutes)
                /\ row.Ran = bit(row.RunningMinutes)
                /\ row.HIITTrained = bit(row.HIITMinutes)
                /\ row.CoreTrained = bit(row.CoreTrainingMinutes)
                /\ row.Exercised = bit(row.TotalWorkoutMinutes)
                /\ ( /\ row.StrengthTrainingMinutes >= 0
                     /\ row.RunningMinutes >= 0
                     /\ row.HIITMinutes >= 0
                     /\ row.CoreTrainingMinutes >= 0 ) =>
                      ( row.Exercised = 1 <=>
                          1 \in { row.StrengthTrained, row.Ran,
                                  row.HIITTrained, row.CoreTrained } )

\* C9 witness: a day of 44 strength and 20 running minutes, and a day
\* without a workout
C9_Witness ==
    /\ FinalReturned
    /\ \E k \in 1..Len(df_final) :
          /\ df_final[k].StrengthTrainingMinutes = 44
          /\ df_final[k].RunningMinutes = 20
          /\ df_final[k].TotalWorkoutMinutes = 64
          /\ df_final[k].Exercised = 1
          /\ df_final[k].HIITTrained = 0
    /\ \E k \in 1..Len(df_final) :
          /\ df_final[k].TotalWorkoutMinutes = 0
          /\ df_final[k].Exercised = 0

WeekdayNames ==
    << "Monday", "Tuesday", "Wednesday", "Thursday", "Friday", "Saturday", "Sunday" >>

\* C10: in every DailyFact row WeekEndingDate is EndDate + (6 - weekday)
\* days with Monday = 0 .. Sunday = 6: it is a Sunday, zero to six days
\* after EndDate, four days after a Wednesday and the day itself for a
\* Sunday; the weekday name follows the same numbering.  Day 0 of the model
\* is a Monday, so day n is the weekday n mod 7.
C10_WeekEndingIsNextSunday ==
    FinalReturned =>
        \A k \in 1..Len(df_final) :
            LET row == df_final[k]
                wd == row.EndDate % 7
            IN  /\ row.WeekEndingDate = row.EndDate + (6 - wd)
                /\ row.WeekEndingDate % 7 = 6
                /\ row.WeekEndingDate - row.EndDate \in 0..6
                /\ row.weekday = WeekdayNames[wd + 1]
                /\ row.weekday = "Wednesday" => row.WeekEndingDate = row.EndDate + 4
                /\ row.weekday = "Sunday" => row.WeekEndingDate = row.EndDate

\* C10 witness: a table with the row of Wednesday 2024-01-03 and the row
\* of Sunday 2024-01-07, both of the week ending 2024-01-07
C10_Witness ==
    /\ FinalReturned
    /\ \E k \in 1..Len(df_final) :
          /\ df_final[k].EndDate = 9
          /\ df_final[k].weekday = "Wednesday"
          /\ df_final[k].WeekEndingDate = 13
    /\ \E k \in 1..Len(df_final) :
          /\ df_final[k].EndDate = 13
          /\ df_final[k].weekday = "Sunday"
          /\ df_final[k].WeekEndingDate = 13

-----------------------------------------------------------------------------
(* Error handling of the three stages, checked under Spec *)

\* a Record element whose timestamps are timestamps and whose value is one
\* of the replaced category codes or a number
WellFormedRecord(r) ==
    /\ r.startDate.ok /\ r.endDate.ok
    /\ r.value \in value_replacements \/ r.value \in DOMAIN FloatOfString

\* a Workout element whose timestamps are timestamps and whose duration,
\* distance and elevation are numbers where present
WellFormedWorkout(w) ==
    /\ w.startDate.ok /\ w.endDate.ok
    /\ w.duration \in DOMAIN FloatOfString
    /\ w.distance = None \/ w.distance \in DOMAIN FloatOfString
    /\ w.elevation = None \/ SplitElevation(w.elevation)[1] \in DOMAIN FloatOfString

\* the stages that have returned a table to main
HealthDone == raised.stage # "health" /\ pc # "parse"
WorkoutDone == HealthDone /\ raised.stage # "workout" /\ pc # "workout"
FinalDone == WorkoutDone /\ raised.stage # "final" /\ pc # "final"

\* C11: each of the three stages either returns a complete table or raises
\* DataProcessingError carrying the original failure.  No other exception
\* type leaves a stage; the stage that raised left no table and ended the
\* run; what it carries is the failure of its input (a malformed timestamp,
\* a value that is not a number, a missing column); and a stage that
\* returned was given no malformed element and returned one row for each
\* element it was given (one row for each date from the reporting start
\* on, for the aggregator), so no bad element was skipped or coerced.
C11_FailuresSurfaceAsDataProcessingError ==
    /\ ~FinalDone => raised.type \in {"none", DataProcessingError}
    /\ raised.type = DataProcessingError <=>
          raised.stage \in {"health", "workout", "final"}
    /\ raised.type = DataProcessingError =>
          /\ pc = "aborted"
          /\ raised.cause \in {"KeyError", "ValueError", "DateParseError"}
    /\ raised.stage = "health" =>
          /\ df = <<>> /\ df2 = <<>> /\ df_final = <<>>
          /\ raised.cause = "KeyError" => records = <<>>
          /\ raised.cause = "DateParseError" =>
                \E i \in 1..Len(records) :
                    ~records[i].startDate.ok \/ ~records[i].endDate.ok
          /\ raised.cause = "ValueError" =>
                \E i \in 1..Len(records) : ~WellFormedRecord(records[i])
    /\ HealthDone =>
          /\ Len(df) = Len(records)
          /\ records # <<>>
          /\ \A i \in 1..Len(records) : WellFormedRecord(records[i])
    /\ raised.stage = "workout" =>
          /\ df2 = <<>> /\ df_final = <<>>
          /\ raised.cause = "KeyError" =>
                \A i \in 1..Len(workouts) : workouts[i].elevation = None
          /\ raised.cause = "DateParseError" =>
                \E i \in 1..Len(workouts) :
                    ~workouts[i].startDate.ok \/ ~workouts[i].endDate.ok
          /\ raised.cause = "ValueError" =>
                \E i \in 1..Len(workouts) : ~WellFormedWorkout(workouts[i])
    /\ WorkoutDone =>
          /\ Len(df2) = Len(workouts)
          /\ \E i \in 1..Len(workouts) : workouts[i].elevation # None
          /\ \A i \in 1..Len(workouts) : WellFormedWorkout(workouts[i])
    /\ raised.stage = "final" =>
          /\ df_final = <<>>
          /\ raised.cause = "KeyError"
          /\ \E t \in workout_minutes_types :
                \A i \in 1..Len(df2) : df2[i].workout_activity_type # t
    /\ FinalDone =>
          /\ \A t \in workout_minutes_types :
                \E i \in 1..Len(df2) : df2[i].workout_activity_type = t
          /\ {df_final[k].EndDate : k \in 1..Len(df_final)}
                = {d \in {df[i].end_date : i \in 1..Len(df)} : d >= ReportingStart}

\* C11 witness: the record flattener returned a table of two rows, then the
\* workout flattener met the workout with the malformed endDate after two
\* well-formed ones and raised DataProcessingError, leaving no table
C11_Witness ==
    /\ raised = [type |-> DataProcessingError, stage |-> "workout",
                 cause |-> "DateParseError"]
    /\ pc = "aborted"
    /\ Len(df) = 2 /\ Len(records) = 2
    /\ Len(workouts) = 3
    /\ WellFormedWorkout(workouts[1]) /\ WellFormedWorkout(workouts[2])
    /\ ~workouts[3].endDate.ok
    /\ df2 = <<>>

-----------------------------------------------------------------------------
(* The sleep stage columns, checked under Spec *)

SleepStageColumns ==
    { <<"CoreSleepHours", "HKCategoryValueSleepAnalysisAsleepCore">>,
      <<"DeepSleepHours", "HKCategoryValueSleepAnalysisAsleepDeep">>,
      <<"REMSleepHours", "HKCategoryValueSleepAnalysisAsleepREM">> }

RECURSIVE TotalOfValues(_)
TotalOfValues(rows) ==
    IF rows = <<>> THEN 0 ELSE Head(rows).value + TotalOfValues(Tail(rows))

\* the NormalizedRecord rows of one value2 category that end on one date
RowsOfStage(category, date) ==
    SelectSeq(df, LAMBDA r : r.value2 = category /\ r.end_date = date)

\* C14: for each of CoreSleepHours, DeepSleepHours and REMSleepHours and
\* every date of the returned table, the cell is missing when no
\* NormalizedRecord row of the matching category ends on that date, and is
\* otherwise a multiple of 0.1 within 0.05 hours of (the sum of the value
\* seconds of those rows) / 3600; rows of any other category do not enter
\* the sum.  A date with 2 h of Core, 1 h of Deep and 1.5 h of REM has
\* TotalSleepHours 4.5.  Hours are in thousandths, seconds in thousandths.
C14_StageHoursAreCategorySums ==
    FinalDone =>
        \A k \in 1..Len(df_final) :
            /\ \A m \in SleepStageColumns :
                  LET cell == df_final[k][m[1]]
                      rows == RowsOfStage(m[2], df_final[k].EndDate)
                      exact == TotalOfValues(rows)
                  IN  IF rows = <<>> THEN cell = NaN
                      ELSE /\ cell # NaN
                           /\ cell % 100 = 0
                           /\ cell * SecondsPerHour - exact <= 180000
                           /\ exact - cell * SecondsPerHour <= 180000
            /\ ( /\ TotalOfValues(RowsOfStage(
                        "HKCategoryValueSleepAnalysisAsleepCore",
                        df_final[k].EndDate)) = 7200000
                 /\ TotalOfValues(RowsOfStage(
                        "HKCategoryValueSleepAnalysisAsleepDeep",
                        df_final[k].EndDate)) = 3600000
                 /\ TotalOfValues(RowsOfStage(
                        "HKCategoryValueSleepAnalysisAsleepREM",
                        df_final[k].EndDate)) = 5400000 )
                => df_final[k].TotalSleepHours = 4500

\* C14 witness: the night ending 2024-01-03 has a Core segment of 2 h, a
\* REM segment of 1.5 h, an Awake segment and no Deep segment: its row has
\* 2.0 Core hours, 1.5 REM hours and no Deep hours
C14_Witness ==
    /\ FinalDone
    /\ \E i \in 1..Len(df) :
          /\ df[i].value2 = "HKCategoryValueSleepAnalysisAwake"
          /\ df[i].end_date = 9
    /\ \E k \in 1..Len(df_final) :
          /\ df_final[k].EndDate = 9
          /\ df_final[k].CoreSleepHours = 2000
          /\ df_final[k].DeepSleepHours = NaN
          /\ df_final[k].REMSleepHours = 1500

-----------------------------------------------------------------------------
(* The elevation of a workout, checked under Spec *)

\* C15: for every workout of the returned NormalizedWorkout table whose
\* element carries the HKElevationAscended entry "<n> <unit>" or "<n>",
\* elevation_ascended is n / 100 rounded to 1 decimal (a multiple of 0.1 at
\* most 0.05 away from n / 100) whatever the unit, the unit label "cm" has
\* become "m" and any other label, or the absent one, is as it was; a
\* workout without the entry has elevation_ascended 0.  Elevations are in
\* thousandths.
C15_ElevationIsHundredthRounded ==
    WorkoutDone =>
        \A i \in 1..Len(df2) :
            LET w == workouts[i]
                e == df2[i].elevation_ascended
                unit == df2[i].elevation_ascended_unit
            IN  IF w.elevation = None THEN e = 0
                ELSE LET n == FloatOfString[SplitElevation(w.elevation)[1]]
                         label == SplitElevation(w.elevation)[2]
                     IN  /\ e % 100 = 0
                         /\ 100 * e - n <= 5000
                         /\ n - 100 * e <= 5000
                         /\ unit = IF label = "cm" THEN "m" ELSE label

-----------------------------------------------------------------------------
(* The order of the uploads, checked under MainSpec *)

\* what C13 says of a state of a run
C13_State ==
    /\ uploads # <<>> => FinalDone
    /\ raised.stage \in {"health", "workout", "final"} =>
          uploads = <<>> /\ pc = "aborted"
    /\ \A i \in 1..Len(uploads) :
          /\ uploads[i].table = upload_order[i]
          /\ i < Len(uploads) => uploads[i].status = "done"
          /\ uploads[i].status = "running" => pc = "wait"
          /\ uploads[i].status = "failed" =>
                pc = "aborted" /\ raised.type = BigQueryError
    /\ Len(uploads) <= Len(upload_order)

\* what C13 says of a step of a run
C13_Step ==
    /\ pc = "aborted" => pc' = "aborted" /\ uploads' = uploads
    /\ raised # NoException => pc = "aborted" /\ raised' = raised
    /\ uploads' # uploads /\ Len(uploads') > Len(uploads) =>
          /\ raised = NoException
          /\ FinalDone
          /\ \A i \in 1..Len(uploads) : uploads[i].status = "done"
          /\ Len(uploads') = Len(uploads) + 1

\* C13: in a run of main no load job is issued before the three stages have
\* all returned; a stage that raises ends the run with no load job issued
\* and is not called again; the load jobs are issued one at a time, each
\* table once and in call order, a job only after every earlier one has
\* been acknowledged; and once a stage, a summary or an upload has failed
\* the run has ended and no further load job is issued.
C13_UploadsAfterStagesOneAtATime ==
    [](C13_State) /\ [][C13_Step]_vars

\* C13 witness: the three stages returned, the first load job was
\* acknowledged, the second failed and the run ended with two jobs issued
C13_Witness ==
    /\ pc = "aborted"
    /\ raised.type = BigQueryError
    /\ Len(uploads) = 2
    /\ uploads[1] = [table |-> "health_record", status |-> "done"]
    /\ uploads[2] = [table |-> "workouts_grouped", status |-> "failed"]
    /\ df_final # <<>>

-----------------------------------------------------------------------------
(* The sleep summary, checked under MainSpec *)

\* main has computed sleep_dist
SleepSummarized ==
    \/ Len(uploads) >= 4
    \/ Len(uploads) = 3 /\ uploads[3].status = "done" /\ pc # "sleep"

\* the TotalSleepHours of the DailyFact rows whose WeekEndingDate column is
\* a given week, missing values left out
HoursOfWeek(week) ==
    { df_final[k].TotalSleepHours :
        k \in { j \in 1..Len(df_final) :
                  /\ df_final[j].WeekEndingDate = week
                  /\ df_final[j].TotalSleepHours # NaN } }

\* C16: the week-ending date the sleep summarizer recomputes from EndDate
\* is, for every DailyFact row, the WeekEndingDate column of that row; the
\* summary has exactly one row for each week-ending date after 2024-11-17
\* that some DailyFact row has, in ascending order, each a Sunday, and none
\* for 2024-11-17 or earlier; and a row's Min and Max are the least and the
\* greatest TotalSleepHours of the days of its week, with Q1, Median and Q3
\* in order between them (five missing values when no day of the week has
\* a TotalSleepHours).
C16_SleepSummaryKeyedByWeekEnding ==
    SleepSummarized =>
        /\ \A k \in 1..Len(df_final) :
              SleepWeekEnding(df_final[k].EndDate) = df_final[k].WeekEndingDate
        /\ { sleep_dist[i].WeekEndingDate : i \in 1..Len(sleep_dist) }
              = { w \in { df_final[k].WeekEndingDate : k \in 1..Len(df_final) } :
                    w > SleepCutoff }
        /\ \A i \in 1..Len(sleep_dist) :
              LET row == sleep_dist[i]
                  hours == HoursOfWeek(row.WeekEndingDate)
              IN  /\ row.WeekEndingDate % 7 = 6
                  /\ row.WeekEndingDate > 328      \* Sunday 2024-11-17
                  /\ i < Len(sleep_dist) =>
                        row.WeekEndingDate < sleep_dist[i + 1].WeekEndingDate
                  /\ IF hours = {}
                     THEN /\ row.Min = NaN /\ row.Q1 = NaN /\ row.Median = NaN
                          /\ row.Q3 = NaN /\ row.Max = NaN
                     ELSE /\ row.Min \in hours /\ \A h \in hours : row.Min <= h
                          /\ row.Max \in hours /\ \A h \in hours : h <= row.Max
                          /\ row.Min <= row.Q1 /\ row.Q1 <= row.Median
                          /\ row.Median <= row.Q3 /\ row.Q3 <= row.Max

\* C16 witness: the nights of Sunday 2024-11-17, Monday 2024-11-18 (6.5 h)
\* and Thursday 2024-11-21 (8.0 h): the week ending 2024-11-17 has no row
\* and the week ending 2024-11-24 has the one row of the summary
C16_Witness ==
    /\ SleepSummarized
    /\ \E k \in 1..Len(df_final) : df_final[k].WeekEndingDate = 328
    /\ sleep_dist = << [ WeekEndingDate |-> 335, Min |-> 6500, Q1 |-> 6875,
                         Median |-> 7250, Q3 |-> 7625, Max |-> 8000 ] >>

-----------------------------------------------------------------------------
(* The regimen summary, checked under MainSpec *)

\* main has reached the end of its regimen summarizer, or left it raising
RegimenRan ==
    \/ raised.stage = "regimen"
    \/ Len(uploads) = 5
    \/ Len(uploads) = 4 /\ uploads[4].status = "done" /\ pc # "regimen"

\* the StrengthTrainingMinutes, as floats, of the DailyFact rows with
\* minutes > 0 on one side of 2024-12-31 (day 372)
MinutesBefore ==
    { Float(df_final[k].StrengthTrainingMinutes) :
        k \in { j \in 1..Len(df_final) :
                  /\ df_final[j].StrengthTrainingMinutes > 0
                  /\ df_final[j].EndDate < 372 } }

MinutesFrom ==
    { Float(df_final[k].StrengthTrainingMinutes) :
        k \in { j \in 1..Len(df_final) :
                  /\ df_final[j].StrengthTrainingMinutes > 0
                  /\ df_final[j].EndDate >= 372 } }

\* C12: whenever main's regimen summarizer has run, its output has exactly
\* two rows, labelled 'A' then 'B'; row A summarizes exactly the rows with
\* StrengthTrainingMinutes > 0 and EndDate < 2024-12-31 and row B exactly
\* those with minutes > 0 and EndDate >= 2024-12-31 (its Min and Max are
\* the least and the greatest minutes of its own cohort); and each row
\* satisfies Min <= Q1 <= Median <= Q3 <= Max.
C12_RegimenRowsSummarizeCohorts ==
    RegimenRan =>
        /\ raised.stage # "regimen"
        /\ Len(regimen_dist) = 2
        /\ regimen_dist[1].Regimen = "A"
        /\ regimen_dist[2].Regimen = "B"
        /\ \A c \in { <<1, MinutesBefore>>, <<2, MinutesFrom>> } :
              LET row == regimen_dist[c[1]]
                  minutes == c[2]
              IN  /\ row.Min \in minutes /\ \A m \in minutes : row.Min <= m
                  /\ row.Max \in minutes /\ \A m \in minutes : m <= row.Max
                  /\ row.Q1 # NaN /\ row.Median # NaN /\ row.Q3 # NaN
                  /\ row.Min <= row.Q1 /\ row.Q1 <= row.Median
                  /\ row.Median <= row.Q3 /\ row.Q3 <= row.Max

====
